---------------------------- MODULE Spec2Model ----------------------------
(***************************************************************************)
(* A model of watchlistarr-rust: the watchlist reader (src/plex), the two  *)
(* manager adapters (src/radarr, src/sonarr) and the reconciliation pass   *)
(* with its scheduler loops (src/main.rs).                                 *)
(*                                                                         *)
(* Text is modelled as a sequence of tokens (the lexemes the scanner's     *)
(* search patterns are made of); Option<T> as a sequence of length 0 or 1. *)
(***************************************************************************)
EXTENDS Integers, Sequences, FiniteSets, TLC

None == <<>>
Some(x) == <<x>>
IsSome(o) == o # <<>>
Unwrap(o) == o[1]

Min(S) == CHOOSE x \in S : \A y \in S : x <= y

(***************************************************************************)
(* Bounds of the model.                                                    *)
(***************************************************************************)
MaxRecords == 2     \* records in the document served by the watchlist source
MaxCycles == 2      \* ticks of one scheduler loop
MaxRepeated == 1    \* records in a document that is read in cycle after cycle
SideTicks == 1      \* ticks of each of two scheduler loops that run side by side

(***************************************************************************)
(* src/plex/mod.rs: the watchlist document and its scanner.                *)
(***************************************************************************)
Q == "\""

\* The shapes of one source record.  titleName "subtitle" is an attribute
\* that is not the title but whose text ends in the scanner's pattern.
RecordShapes ==
    [ tag       : {"Video", "Directory"},
      type      : {None, Some("movie"), Some("show")},
      titleName : {"title", "subtitle"},
      title     : {None, Some("A")},
      key       : BOOLEAN,
      year      : {None} ]

\* Shapes every field of which is present and consistent: what the
\* reconciliation passes are fed with.
EntryShapes ==
    { r \in [ tag       : {"Video", "Directory"},
              type      : {Some("movie"), Some("show")},
              titleName : {"title"},
              title     : {Some("A"), Some("B")},
              key       : {TRUE},
              year      : {None} ] :
        (r.tag = "Video") <=> (r.type = Some("movie")) }

RECURSIVE SeqsUpTo(_, _)
SeqsUpTo(S, n) ==
    IF n = 0 THEN { <<>> }
    ELSE LET shorter == SeqsUpTo(S, n - 1)
         IN  shorter \cup { Append(s, x) : s \in { t \in shorter : Len(t) = n - 1 }, x \in S }

AttrText(name, value) == <<name, Q, value, Q>>

\* The text of record r, the i-th of its document; its ratingKey is i.
RenderRecord(r, i) ==
    << "<" \o r.tag \o " " >>
    \o (IF IsSome(r.type) THEN AttrText("type=", Unwrap(r.type)) ELSE <<>>)
    \o (IF IsSome(r.title)
        THEN (IF r.titleName = "subtitle" THEN <<"sub">> ELSE <<>>)
             \o AttrText("title=", Unwrap(r.title))
        ELSE <<>>)
    \o (IF r.key THEN AttrText("ratingKey=", ToString(i)) ELSE <<>>)
    \o (IF IsSome(r.year) THEN AttrText("year=", Unwrap(r.year)) ELSE <<>>)
    \o << ">" >>

RECURSIVE RenderFrom(_, _)
RenderFrom(d, i) ==
    IF i > Len(d) THEN <<>> ELSE RenderRecord(d[i], i) \o RenderFrom(d, i + 1)

RenderDoc(d) == << "<MediaContainer ", ">" >> \o RenderFrom(d, 1) \o << "</MediaContainer>" >>

\* str::find: the first position >= from at which pat occurs in s, 0 if none.
Find(s, pat, from) ==
    LET hits == { i \in from .. (Len(s) - Len(pat) + 1) :
                    SubSeq(s, i, i + Len(pat) - 1) = pat }
    IN  IF hits = {} THEN 0 ELSE Min(hits)

Contains(s, pat) == Find(s, pat, 1) # 0

RECURSIVE Concat(_)
Concat(ts) == IF ts = <<>> THEN "" ELSE Head(ts) \o Concat(Tail(ts))

\* The value between key=" and the next quote.
ExtractAttr(line, key) ==
    LET start == Find(line, <<key, Q>>, 1)
    IN  IF start = 0 THEN None
        ELSE LET end == Find(line, <<Q>>, start + 2)
             IN  IF end = 0 THEN None
                 ELSE Some(Concat(SubSeq(line, start + 2, end - 1)))

extract_title(line) == ExtractAttr(line, "title=")
extract_rating_key(line) == ExtractAttr(line, "ratingKey=")
extract_guid(line) == ExtractAttr(line, "guid=")

\* str::parse::<i32>().ok() on the year texts of the model.
ParseI32(s) == IF s = "2021" THEN Some(2021) ELSE None

extract_year(line) ==
    LET v == ExtractAttr(line, "year=")
    IN  IF IsSome(v) THEN ParseI32(Unwrap(v)) ELSE None

\* One of the two scanning loops of parse_xml_watchlist.
RECURSIVE ScanElements(_, _, _, _, _, _)
ScanElements(xml, start_pos, open, type_marker, item_type, acc) ==
    LET actual_start == Find(xml, <<open>>, start_pos)
    IN  IF actual_start = 0 THEN acc
        ELSE LET end_pos == Find(xml, << ">" >>, actual_start)
             IN  IF end_pos = 0 THEN acc
                 ELSE LET element == SubSeq(xml, actual_start, end_pos)
                          title == extract_title(element)
                          rating_key == extract_rating_key(element)
                          keep == /\ Contains(element, type_marker)
                                  /\ Contains(element, <<"title=">>)
                                  /\ Contains(element, <<"ratingKey=">>)
                                  /\ IsSome(title)
                                  /\ IsSome(rating_key)
                          item == [ id        |-> Unwrap(rating_key),
                                    title     |-> Unwrap(title),
                                    year      |-> extract_year(element),
                                    item_type |-> item_type,
                                    guid      |-> extract_guid(element) ]
                      IN  ScanElements(xml, end_pos + 1, open, type_marker, item_type,
                                       IF keep THEN Append(acc, item) ELSE acc)

ScanVideos(xml, acc) ==
    ScanElements(xml, 1, "<Video ", AttrText("type=", "movie"), "Movie", acc)

ScanDirectories(xml, acc) ==
    ScanElements(xml, 1, "<Directory ", AttrText("type=", "show"), "Show", acc)

\* A reader that scans the show elements before the movie elements.
parse_directories_first(xml) == ScanVideos(xml, ScanDirectories(xml, <<>>))

parse_xml_watchlist(xml) == ScanDirectories(xml, ScanVideos(xml, <<>>))

(***************************************************************************)
(* src/config/mod.rs, src/models/mod.rs: the configuration and the data    *)
(* the managers serve.                                                     *)
(***************************************************************************)
SyncLoops == {"rss", "full"}
Managers == {"radarr", "sonarr"}

\* RadarrConfig / SonarrConfig: the fields add_movie and add_series read.
ManagerConfig(quality_profile, root_folder, tag_names) ==
    [ quality_profile |-> quality_profile,
      root_folder     |-> root_folder,
      tags            |-> tag_names ]

\* QualityProfile, RootFolder, Tag as the managers report them.
ProfileUniverse == { [id |-> 4, name |-> "HD-1080p"], [id |-> 7, name |-> "SD"] }
RootUniverse == { [id |-> 1, path |-> "/data"], [id |-> 2, path |-> "/media"] }
TagUniverse == { [id |-> 3, label |-> "watchlist"], [id |-> 5, label |-> "kids"],
                 [id |-> 9, label |-> "watchlist"] }

\* RadarrLookupResult / SonarrLookupResult: the fields the adapters read.
LookupResult(tvdb_id, tmdb_id) ==
    [ title |-> "canonical", tvdb_id |-> tvdb_id, tmdb_id |-> tmdb_id ]

LookupResults(m) ==
    IF m = "radarr"
    THEN { LookupResult(None, t) : t \in {None, Some(1), Some(2)} }
    ELSE { LookupResult(v, t) : v \in {None, Some(1)}, t \in {None, Some(1)} }

\* The ranked responses a lookup may give: empty, or a result
\* followed by at most one lower-ranked other.
RankedResponses(m) ==
    { <<>> } \cup { <<r>> : r \in LookupResults(m) }
             \cup { <<r, LookupResult(None, Some(2))>> : r \in LookupResults(m) }

\* RadarrMovieSimple / SonarrSeriesSimple.
LibraryRecord(tvdb_id, tmdb_id) == [ tvdb_id |-> tvdb_id, tmdb_id |-> tmdb_id ]

LibraryUniverse(m) ==
    IF m = "radarr"
    THEN { LibraryRecord(None, Some(1)), LibraryRecord(None, Some(2)), LibraryRecord(None, None) }
    ELSE { LibraryRecord(Some(1), None), LibraryRecord(None, Some(1)),
           LibraryRecord(Some(1), Some(2)), LibraryRecord(Some(2), Some(1)) }

GetResponses == {"ok", "fail"}
\* post_json: 2xx with a JSON body; non-2xx; 2xx whose body does not decode.
PostResponses == {"ok", "rejected", "undecodable"}

ManagerOf(item_type) == IF item_type = "Movie" THEN "radarr" ELSE "sonarr"

VARIABLES
    doc,          \* the document the watchlist source serves
    parsed,       \* the watchlist the reader returned last
    config,       \* Configuration: plex, radarr, sonarr, delete (Option each)
    srvLibrary,   \* per manager: the records of its library
    srvProfiles,  \* per manager: the quality profiles it reports
    srvRoots,     \* per manager: the root folders it reports
    srvTags,      \* per manager: the tags it reports
    srvIndex,     \* per manager: search term -> ranked lookup response
    healthy,      \* every call is answered with success from here on
    task,         \* per sync loop: where run_sync stands, and its locals
    log,          \* per sync loop: per cycle, the per-entry outcomes
    result,       \* per sync loop: per cycle, what run_sync returned
    budget,       \* per sync loop: ticks left
    inflight,     \* the requests sent and not yet answered
    posts         \* the add requests sent, in order

vars == <<doc, parsed, config, srvLibrary, srvProfiles, srvRoots, srvTags, srvIndex,
          healthy, task, log, result, budget, inflight, posts>>

srvVars == <<srvLibrary, srvProfiles, srvRoots, srvTags, srvIndex, healthy>>

\* client: the adapter add is called on, when it is not run_sync that chose
\* it by the entry's kind.  manager_tags: what get_tags returned.
IdleTask ==
    [ pc |-> "tick", waiting |-> FALSE, items |-> <<>>, idx |-> 0, sleeps |-> 0,
      client |-> None,
      lookup_result |-> None, quality_profiles |-> <<>>, placement |-> None,
      manager_tags |-> None, tag_ids |-> <<>> ]

(***************************************************************************)
(* src/radarr/mod.rs, src/sonarr/mod.rs: the pure steps of add_movie and   *)
(* add_series.                                                             *)
(***************************************************************************)
\* The year left out of the term.
SearchTermTitleOnly(title, year) == title

\* lookup_movie / lookup_series: the term sent to the lookup endpoint.
SearchTerm(title, year) ==
    IF IsSome(year) THEN title \o " " \o ToString(Unwrap(year)) ELSE title

\* Any record of the library taken for the result's.
ExistsAny(m, lookup_result, existing) == existing # {}

\* The library listed whatever the lookup result.
MovieListsLibraryAlways(lookup_result) == TRUE

\* add_movie: the library is listed, and searched, only for a result with a tmdb id.
MovieListsLibrary(lookup_result) == IsSome(lookup_result.tmdb_id)

\* any() written as all().
MovieExistsAll(lookup_result, existing_movies) ==
    /\ IsSome(lookup_result.tmdb_id)
    /\ \A m \in existing_movies : m.tmdb_id = lookup_result.tmdb_id

MovieExists(lookup_result, existing_movies) ==
    /\ IsSome(lookup_result.tmdb_id)
    /\ \E m \in existing_movies : m.tmdb_id = lookup_result.tmdb_id

\* The tmdb check left out.
SeriesExistsTvdbOnly(lookup_result, existing_series) ==
    /\ IsSome(lookup_result.tvdb_id)
    /\ \E s \in existing_series : s.tvdb_id = lookup_result.tvdb_id

\* add_series: a record with the result's tvdb id, or one with its tmdb id.
SeriesExists(lookup_result, existing_series) ==
    \/ /\ IsSome(lookup_result.tvdb_id)
       /\ \E s \in existing_series : s.tvdb_id = lookup_result.tvdb_id
    \/ /\ IsSome(lookup_result.tmdb_id)
       /\ \E s \in existing_series : s.tmdb_id = lookup_result.tmdb_id

ListsLibrary(m, lookup_result) ==
    IF m = "radarr" THEN MovieListsLibrary(lookup_result) ELSE TRUE

Exists(m, lookup_result, existing) ==
    IF m = "radarr" THEN MovieExists(lookup_result, existing)
    ELSE SeriesExists(lookup_result, existing)

FallbackProfileId == 1

FirstProfileId(quality_profiles) ==
    IF quality_profiles = <<>> THEN FallbackProfileId ELSE quality_profiles[1].id

ProfileMatches(profile_name, quality_profiles) ==
    { i \in 1 .. Len(quality_profiles) : quality_profiles[i].name = profile_name }

\* The configured name ignored.
QualityProfileIdFirst(configured, quality_profiles) == FirstProfileId(quality_profiles)

\* quality_profile_id of add_movie and add_series.
QualityProfileId(configured, quality_profiles) ==
    IF IsSome(configured)
    THEN LET hits == ProfileMatches(Unwrap(configured), quality_profiles)
         IN  IF hits # {} THEN quality_profiles[Min(hits)].id
             ELSE FirstProfileId(quality_profiles)
    ELSE FirstProfileId(quality_profiles)

\* Whether the "not found, using first available" warning is logged.
QualityProfileWarns(configured, quality_profiles) ==
    /\ IsSome(configured)
    /\ ProfileMatches(Unwrap(configured), quality_profiles) = {}

DefaultRootFolder(m) == IF m = "radarr" THEN "/mnt/shared/movies" ELSE "/tv"

\* The configured folder used only when the manager reports it.
RootFolderPathReported(m, configured, root_folders) ==
    IF root_folders = <<>> THEN DefaultRootFolder(m)
    ELSE IF /\ IsSome(configured)
            /\ \E i \in 1 .. Len(root_folders) : root_folders[i].path = Unwrap(configured)
    THEN Unwrap(configured)
    ELSE root_folders[1].path

\* root_folder_path of add_movie and add_series.
RootFolderPath(m, configured, root_folders) ==
    IF IsSome(configured) THEN Unwrap(configured)
    ELSE IF root_folders = <<>> THEN DefaultRootFolder(m)
    ELSE root_folders[1].path

\* The ids collected in the order of the manager's tags.
resolve_in_reported_order(tag_names, manager_tags) ==
    LET kept == SelectSeq(manager_tags,
                          LAMBDA t : \E i \in 1 .. Len(tag_names) : tag_names[i] = t.label)
    IN  [ i \in 1 .. Len(kept) |-> kept[i].id ]

\* resolve_tag_ids, given the tags the manager reported.
RECURSIVE resolve_tag_ids(_, _)
resolve_tag_ids(tag_names, manager_tags) ==
    IF tag_names = <<>> THEN <<>>
    ELSE LET hits == { i \in 1 .. Len(manager_tags) : manager_tags[i].label = Head(tag_names) }
             rest == resolve_tag_ids(Tail(tag_names), manager_tags)
         IN  IF hits = {} THEN rest ELSE <<manager_tags[Min(hits)].id>> \o rest

\* A movie added unmonitored.
RadarrMovieUnmonitored(lookup_result, quality_profile_id, root_folder_path, tag_ids) ==
    [ title              |-> lookup_result.title,
      tmdb_id            |-> lookup_result.tmdb_id,
      tvdb_id            |-> None,
      quality_profile_id |-> quality_profile_id,
      root_folder_path   |-> root_folder_path,
      search             |-> TRUE,
      monitor            |-> None,
      monitored          |-> FALSE,
      tags               |-> tag_ids ]

\* The body of the add request: RadarrMovie.
RadarrMovie(lookup_result, quality_profile_id, root_folder_path, tag_ids) ==
    [ title              |-> lookup_result.title,
      tmdb_id            |-> lookup_result.tmdb_id,
      tvdb_id            |-> None,
      quality_profile_id |-> quality_profile_id,
      root_folder_path   |-> root_folder_path,
      search             |-> TRUE,
      monitor            |-> None,
      monitored          |-> TRUE,
      tags               |-> tag_ids ]

\* The body of the add request: SonarrSeries.
SonarrSeries(lookup_result, quality_profile_id, root_folder_path, tag_ids, season_monitoring) ==
    [ title              |-> lookup_result.title,
      tmdb_id            |-> lookup_result.tmdb_id,
      tvdb_id            |-> lookup_result.tvdb_id,
      quality_profile_id |-> quality_profile_id,
      root_folder_path   |-> root_folder_path,
      search             |-> TRUE,
      monitor            |-> Some(IF IsSome(season_monitoring)
                                  THEN Unwrap(season_monitoring) ELSE "all"),
      monitored          |-> TRUE,
      tags               |-> tag_ids ]

\* get_friends_watchlists: a stub, empty on both of its paths.
get_friends_watchlists(plex_config) == <<>>

\* The record the manager keeps of an add request it accepted.
Accepted(body) == LibraryRecord(body.tvdb_id, body.tmdb_id)

(***************************************************************************)
(* src/main.rs: run_sync, one step per suspension point.  A call to a      *)
(* manager or to the watchlist source is two steps: Send puts the request  *)
(* in flight, the step named after the call takes the response.            *)
(***************************************************************************)
CallPcs == { "get_watchlist", "lookup", "get_library", "get_quality_profiles",
             "get_root_folders", "get_tags", "post" }

Cycle(l) == Len(log[l])

CurrentItem(l) == task[l].items[task[l].idx]

CurrentManager(l) ==
    IF IsSome(task[l].client) THEN Unwrap(task[l].client)
    ELSE ManagerOf(CurrentItem(l).item_type)

Request(l) == [ loop |-> l, idx |-> task[l].idx, op |-> task[l].pc ]

\* The add request add_movie / add_series builds from its locals.
AddBody(l) ==
    LET t == task[l]
        m == CurrentManager(l)
        cfg == Unwrap(config[m])
        p == Unwrap(t.placement)
    IN  IF m = "radarr"
        THEN RadarrMovie(Unwrap(t.lookup_result), p.quality_profile_id,
                         p.root_folder_path, t.tag_ids)
        ELSE SonarrSeries(Unwrap(t.lookup_result), p.quality_profile_id,
                          p.root_folder_path, t.tag_ids, cfg.season_monitoring)

\* The throttle sleep left out between two entries.
FinishUnthrottled(l, outcome, error) ==
    /\ task' = [task EXCEPT ![l] =
                  [@ EXCEPT !.pc = IF task[l].idx < Len(task[l].items) THEN "route" ELSE "sleep",
                            !.idx = IF @ < Len(task[l].items) THEN @ + 1 ELSE @,
                            !.waiting = FALSE, !.lookup_result = None,
                            !.quality_profiles = <<>>, !.placement = None,
                            !.manager_tags = None, !.tag_ids = <<>>]]
    /\ log' = [log EXCEPT ![l][Cycle(l)] =
                  Append(@, [ result |-> outcome,
                              error  |-> error,
                              at     |-> task[l].pc,
                              lookup |-> task[l].lookup_result,
                              warned |-> IF IsSome(task[l].placement)
                                         THEN Unwrap(task[l].placement).warned ELSE FALSE ])]

\* The entry's attempt is over: its outcome is known, the throttle sleep is next.
\* error names what add_movie / add_series returned as Err ("" for Ok).
Finish(l, outcome, error) ==
    /\ task' = [task EXCEPT ![l] =
                  [@ EXCEPT !.pc = "sleep", !.waiting = FALSE, !.lookup_result = None,
                            !.quality_profiles = <<>>, !.placement = None,
                            !.manager_tags = None, !.tag_ids = <<>>]]
    /\ log' = [log EXCEPT ![l][Cycle(l)] =
                  Append(@, [ result |-> outcome,
                              error  |-> error,
                              at     |-> task[l].pc,
                              lookup |-> task[l].lookup_result,
                              warned |-> IF IsSome(task[l].placement)
                                         THEN Unwrap(task[l].placement).warned ELSE FALSE ])]

\* An Err returned with ? out of the loop, which ends its task.
ReturnPropagating(l, r) ==
    /\ task' = [task EXCEPT ![l] = [IdleTask EXCEPT !.pc = IF r = "Err" THEN "exited" ELSE "tick"]]
    /\ result' = [result EXCEPT ![l] = Append(@, r)]

\* run_sync returns r to its loop, which logs an Err and waits for the next tick.
Return(l, r) ==
    /\ task' = [task EXCEPT ![l] = IdleTask]
    /\ result' = [result EXCEPT ![l] = Append(@, r)]

Goto(l, next) ==
    task' = [task EXCEPT ![l] = [@ EXCEPT !.pc = next, !.waiting = FALSE]]

Answered(l) ==
    /\ task[l].waiting
    /\ inflight' = inflight \ { Request(l) }

\* The records kept of a loop's cycles: those of cycle c and later; an older
\* cycle's entries are dropped.
Recent(cycles, c) == [ i \in 1 .. Len(cycles) |-> IF i >= c THEN cycles[i] ELSE <<>> ]

\* A tick that starts run_sync whether or not the last one has returned.
TickOverlapping(l) ==
    /\ budget[l] > 0
    /\ budget' = [budget EXCEPT ![l] = @ - 1]
    /\ log' = [log EXCEPT ![l] = Append(Recent(@, Cycle(l)), <<>>)]
    /\ posts' = SelectSeq(posts, LAMBDA p : p.loop # l \/ p.cycle >= Cycle(l))
    /\ IF config.plex = None
       THEN Return(l, "Ok")
       ELSE /\ Goto(l, "get_watchlist")
            /\ UNCHANGED result
    /\ UNCHANGED <<doc, parsed, config, srvVars, inflight>>

\* interval.tick() of plex_rss_sync / plex_full_sync, and run_sync up to its first call.
Tick(l) ==
    /\ task[l].pc = "tick"
    /\ budget[l] > 0
    /\ budget' = [budget EXCEPT ![l] = @ - 1]
    /\ log' = [log EXCEPT ![l] = Append(Recent(@, Cycle(l)), <<>>)]
    /\ posts' = SelectSeq(posts, LAMBDA p : p.loop # l \/ p.cycle >= Cycle(l))
    /\ IF config.plex = None
       THEN Return(l, "Ok")
       ELSE /\ Goto(l, "get_watchlist")
            /\ UNCHANGED result
    /\ UNCHANGED <<doc, parsed, config, srvVars, inflight>>

\* The answers a call may get: any of them, and success alone once healthy.
Answers(responses) == IF healthy THEN {"ok"} ELSE responses

\* A request leaves; an add request is on record from here on.
Send(l) ==
    /\ task[l].pc \in CallPcs
    /\ ~task[l].waiting
    /\ task' = [task EXCEPT ![l].waiting = TRUE]
    /\ inflight' = inflight \cup { Request(l) }
    /\ posts' = IF task[l].pc = "post"
                THEN Append(posts, [ loop |-> l, cycle |-> Cycle(l), idx |-> task[l].idx,
                                     manager |-> CurrentManager(l), body |-> AddBody(l) ])
                ELSE posts
    /\ UNCHANGED <<doc, parsed, config, srvVars, log, result, budget>>

\* run_sync after get_watchlist answered with its items.
StartItems(l, watchlist_items) ==
    LET plex_config == Unwrap(config.plex)
        all_items == IF ~plex_config.skip_friend_sync /\ l = "full"
                     THEN watchlist_items \o get_friends_watchlists(plex_config)
                     ELSE watchlist_items
    IN  IF all_items = <<>>
        THEN Return(l, "Ok")
        ELSE /\ task' = [task EXCEPT ![l] =
                           [@ EXCEPT !.pc = "route", !.waiting = FALSE,
                                     !.items = all_items, !.idx = 1, !.sleeps = 0]]
             /\ UNCHANGED result

\* A failed read taken for an empty watchlist.
GetWatchlistOrEmpty(l) ==
    /\ task[l].pc = "get_watchlist"
    /\ Answered(l)
    /\ \E resp \in Answers(GetResponses) :
          IF resp = "ok"
          THEN LET items == parse_xml_watchlist(RenderDoc(doc))
               IN  parsed' = Some(items) /\ StartItems(l, items)
          ELSE parsed' = Some(<<>>) /\ StartItems(l, <<>>)
    /\ UNCHANGED <<doc, config, srvVars, log, budget, posts>>

GetWatchlist(l) ==
    /\ task[l].pc = "get_watchlist"
    /\ Answered(l)
    /\ \E resp \in Answers(GetResponses) :
          IF resp = "ok"
          THEN LET items == parse_xml_watchlist(RenderDoc(doc))
               IN  parsed' = Some(items) /\ StartItems(l, items)
          ELSE Return(l, "Err") /\ UNCHANGED parsed
    /\ UNCHANGED <<doc, config, srvVars, log, budget, posts>>

AdapterFor(item) == config[ManagerOf(item.item_type)]

KindOf(m) == IF m = "radarr" THEN "Movie" ELSE "Show"

\* A missing manager reported as the entry's failure.
RouteUnconfiguredFails(l) ==
    /\ task[l].pc = "route"
    /\ IF ~IsSome(task[l].client) /\ AdapterFor(CurrentItem(l)) = None
       THEN Finish(l, "Failed", "Unconfigured")
       ELSE IF CurrentItem(l).item_type # KindOf(CurrentManager(l))
       THEN Finish(l, "KindMismatch", "")
       ELSE Goto(l, "lookup") /\ UNCHANGED log
    /\ UNCHANGED <<doc, parsed, config, srvVars, result, budget, inflight, posts>>

\* The kind test of add_movie / add_series answering with an Err.
RouteMismatchFails(l) ==
    /\ task[l].pc = "route"
    /\ IF ~IsSome(task[l].client) /\ AdapterFor(CurrentItem(l)) = None
       THEN Finish(l, "Skipped", "")
       ELSE IF CurrentItem(l).item_type # KindOf(CurrentManager(l))
       THEN Finish(l, "Failed", "KindMismatch")
       ELSE Goto(l, "lookup") /\ UNCHANGED log
    /\ UNCHANGED <<doc, parsed, config, srvVars, result, budget, inflight, posts>>

\* The match on item_type, and add_movie / add_series up to the lookup.
Route(l) ==
    /\ task[l].pc = "route"
    /\ IF ~IsSome(task[l].client) /\ AdapterFor(CurrentItem(l)) = None
       THEN Finish(l, "Skipped", "")
       ELSE IF CurrentItem(l).item_type # KindOf(CurrentManager(l))
       THEN Finish(l, "KindMismatch", "")
       ELSE Goto(l, "lookup") /\ UNCHANGED log
    /\ UNCHANGED <<doc, parsed, config, srvVars, result, budget, inflight, posts>>

\* lookup_movie / lookup_series, and the step after it.
Lookup(l) ==
    /\ task[l].pc = "lookup"
    /\ Answered(l)
    /\ \E resp \in Answers(GetResponses) :
          LET m == CurrentManager(l)
              results == srvIndex[m][SearchTerm(CurrentItem(l).title, CurrentItem(l).year)]
          IN  IF resp = "fail" THEN Finish(l, "Failed", "Unavailable")
              ELSE IF results = <<>> THEN Finish(l, "Failed", "NotFound")
              ELSE /\ task' = [task EXCEPT ![l] =
                                 [@ EXCEPT !.lookup_result = Some(results[1]),
                                           !.waiting = FALSE,
                                           !.pc = IF ListsLibrary(m, results[1])
                                                  THEN "get_library"
                                                  ELSE "get_quality_profiles"]]
                   /\ UNCHANGED log
    /\ UNCHANGED <<doc, parsed, config, srvVars, result, budget, posts>>

\* The library listed, and checked, for the first entry of a pass only.
GetLibraryFirstEntryOnly(l) ==
    /\ task[l].pc = "get_library"
    /\ Answered(l)
    /\ \E resp \in Answers(GetResponses) :
          IF resp = "fail" THEN Finish(l, "Failed", "Unavailable")
          ELSE IF /\ task[l].idx = 1
                  /\ Exists(CurrentManager(l), Unwrap(task[l].lookup_result),
                            srvLibrary[CurrentManager(l)])
          THEN Finish(l, "AlreadyExists", "")
          ELSE Goto(l, "get_quality_profiles") /\ UNCHANGED log
    /\ UNCHANGED <<doc, parsed, config, srvVars, result, budget, posts>>

\* get_movies / get_series, and the check of the result against them.
GetLibrary(l) ==
    /\ task[l].pc = "get_library"
    /\ Answered(l)
    /\ \E resp \in Answers(GetResponses) :
          IF resp = "fail" THEN Finish(l, "Failed", "Unavailable")
          ELSE IF Exists(CurrentManager(l), Unwrap(task[l].lookup_result),
                         srvLibrary[CurrentManager(l)])
          THEN Finish(l, "AlreadyExists", "")
          ELSE Goto(l, "get_quality_profiles") /\ UNCHANGED log
    /\ UNCHANGED <<doc, parsed, config, srvVars, result, budget, posts>>

\* The listing of the quality profiles taken as empty when its call fails.
GetQualityProfilesOrDefault(l) ==
    /\ task[l].pc = "get_quality_profiles"
    /\ Answered(l)
    /\ \E resp \in Answers(GetResponses) :
          /\ task' = [task EXCEPT ![l] =
                        [@ EXCEPT !.quality_profiles = IF resp = "fail" THEN <<>>
                                                       ELSE srvProfiles[CurrentManager(l)],
                                  !.waiting = FALSE, !.pc = "get_root_folders"]]
          /\ UNCHANGED log
    /\ UNCHANGED <<doc, parsed, config, srvVars, result, budget, posts>>

GetQualityProfiles(l) ==
    /\ task[l].pc = "get_quality_profiles"
    /\ Answered(l)
    /\ \E resp \in Answers(GetResponses) :
          IF resp = "fail" THEN Finish(l, "Failed", "Unavailable")
          ELSE /\ task' = [task EXCEPT ![l] =
                             [@ EXCEPT !.quality_profiles = srvProfiles[CurrentManager(l)],
                                       !.waiting = FALSE, !.pc = "get_root_folders"]]
               /\ UNCHANGED log
    /\ UNCHANGED <<doc, parsed, config, srvVars, result, budget, posts>>

\* get_root_folders, and the placement computed once both lists are in.
Placement(m, cfg, quality_profiles, root_folders) ==
    [ quality_profile_id |-> QualityProfileId(cfg.quality_profile, quality_profiles),
      warned             |-> QualityProfileWarns(cfg.quality_profile, quality_profiles),
      root_folder_path   |-> RootFolderPath(m, cfg.root_folder, root_folders) ]

GetRootFolders(l) ==
    /\ task[l].pc = "get_root_folders"
    /\ Answered(l)
    /\ \E resp \in Answers(GetResponses) :
          IF resp = "fail" THEN Finish(l, "Failed", "Unavailable")
          ELSE LET m == CurrentManager(l)
                   cfg == Unwrap(config[m])
               IN  /\ task' = [task EXCEPT ![l] =
                                 [@ EXCEPT !.placement =
                                              Some(Placement(m, cfg, task[l].quality_profiles,
                                                             srvRoots[m])),
                                           !.waiting = FALSE,
                                           !.tag_ids = <<>>,
                                           !.pc = IF IsSome(cfg.tags) THEN "get_tags"
                                                  ELSE "post"]]
                   /\ UNCHANGED log
    /\ UNCHANGED <<doc, parsed, config, srvVars, result, budget, posts>>

\* resolve_tag_ids(..).await? : a failed tag listing returned as the attempt's error.
GetTagsPropagating(l) ==
    /\ task[l].pc = "get_tags"
    /\ Answered(l)
    /\ \E resp \in Answers(GetResponses) :
          LET m == CurrentManager(l)
              cfg == Unwrap(config[m])
          IN  IF resp = "fail" THEN Finish(l, "Failed", "Unavailable")
              ELSE /\ task' = [task EXCEPT ![l] =
                                 [@ EXCEPT !.manager_tags = Some(srvTags[m]),
                                           !.tag_ids = resolve_tag_ids(Unwrap(cfg.tags), srvTags[m]),
                                           !.waiting = FALSE, !.pc = "post"]]
                   /\ UNCHANGED log
    /\ UNCHANGED <<doc, parsed, config, srvVars, result, budget, posts>>

\* resolve_tag_ids(..).await.unwrap_or_default()
GetTags(l) ==
    /\ task[l].pc = "get_tags"
    /\ Answered(l)
    /\ \E resp \in Answers(GetResponses) :
          LET m == CurrentManager(l)
              cfg == Unwrap(config[m])
          IN  task' = [task EXCEPT ![l] =
                         [@ EXCEPT !.manager_tags = IF resp = "ok" THEN Some(srvTags[m])
                                                    ELSE None,
                                   !.tag_ids = IF resp = "ok"
                                               THEN resolve_tag_ids(Unwrap(cfg.tags), srvTags[m])
                                               ELSE <<>>,
                                   !.waiting = FALSE, !.pc = "post"]]
    /\ UNCHANGED <<doc, parsed, config, srvVars, log, result, budget, posts>>

\* A rejected add request sent once more before the entry is given up.
PostRetrying(l) ==
    /\ task[l].pc = "post"
    /\ Answered(l)
    /\ \E resp \in Answers(PostResponses) :
          /\ IF resp = "rejected"
                 /\ \A k \in 1 .. Len(posts) :
                        posts[k].loop = l /\ posts[k].cycle = Cycle(l) /\ posts[k].idx = task[l].idx
                            => k = Len(posts)
             THEN /\ task' = [task EXCEPT ![l].waiting = FALSE]
                  /\ UNCHANGED log
             ELSE Finish(l, IF resp = "ok" THEN "Added" ELSE "Failed",
                            IF resp = "ok" THEN "" ELSE IF resp = "rejected" THEN "Rejected"
                            ELSE "Undecodable")
          /\ srvLibrary' = IF resp \in {"ok", "undecodable"}
                           THEN [srvLibrary EXCEPT ![CurrentManager(l)] =
                                    @ \cup { Accepted(AddBody(l)) }]
                           ELSE srvLibrary
    /\ UNCHANGED <<doc, parsed, config, srvProfiles, srvRoots, srvTags, srvIndex, healthy,
                   result, budget, posts>>

\* The manager's answer to the add request, and what add_movie / add_series returns.
Post(l) ==
    /\ task[l].pc = "post"
    /\ Answered(l)
    /\ \E resp \in Answers(PostResponses) :
          /\ Finish(l, IF resp = "ok" THEN "Added" ELSE "Failed",
                        IF resp = "ok" THEN "" ELSE IF resp = "rejected" THEN "Rejected"
                        ELSE "Undecodable")
          /\ srvLibrary' = IF resp \in {"ok", "undecodable"}
                           THEN [srvLibrary EXCEPT ![CurrentManager(l)] =
                                    @ \cup { Accepted(AddBody(l)) }]
                           ELSE srvLibrary
    /\ UNCHANGED <<doc, parsed, config, srvProfiles, srvRoots, srvTags, srvIndex, healthy,
                   result, budget, posts>>

\* An entry that was not found looked up again at once, until it is found.
SleepRetryingNotFound(l) ==
    /\ task[l].pc = "sleep"
    /\ IF log[l][Cycle(l)][task[l].idx].error = "NotFound"
       THEN /\ task' = [task EXCEPT ![l] = [@ EXCEPT !.pc = "route"]]
            /\ log' = [log EXCEPT ![l][Cycle(l)] = SubSeq(@, 1, Len(@) - 1)]
            /\ UNCHANGED result
       ELSE /\ UNCHANGED log
            /\ IF task[l].idx < Len(task[l].items)
               THEN /\ task' = [task EXCEPT ![l] =
                                  [@ EXCEPT !.pc = "route", !.idx = @ + 1, !.sleeps = @ + 1]]
                    /\ UNCHANGED result
               ELSE Return(l, "Ok")
    /\ UNCHANGED <<doc, parsed, config, srvVars, budget, inflight, posts>>

\* An entry's error propagated out of run_sync.
SleepAborting(l) ==
    /\ task[l].pc = "sleep"
    /\ IF log[l][Cycle(l)][task[l].idx].result = "Failed"
       THEN Return(l, "Err")
       ELSE IF task[l].idx < Len(task[l].items)
       THEN /\ task' = [task EXCEPT ![l] =
                          [@ EXCEPT !.pc = "route", !.idx = @ + 1, !.sleeps = @ + 1]]
            /\ UNCHANGED result
       ELSE Return(l, "Ok")
    /\ UNCHANGED <<doc, parsed, config, srvVars, log, budget, inflight, posts>>

\* sleep(100ms) at the end of the loop body, then the next item or the end of run_sync.
Sleep(l) ==
    /\ task[l].pc = "sleep"
    /\ IF task[l].idx < Len(task[l].items)
       THEN /\ task' = [task EXCEPT ![l] =
                          [@ EXCEPT !.pc = "route", !.idx = @ + 1, !.sleeps = @ + 1]]
            /\ UNCHANGED result
       ELSE Return(l, "Ok")
    /\ UNCHANGED <<doc, parsed, config, srvVars, log, budget, inflight, posts>>

Step(l) ==
    \/ Tick(l)
    \/ Send(l)
    \/ GetWatchlist(l)
    \/ Route(l)
    \/ Lookup(l)
    \/ GetLibrary(l)
    \/ GetQualityProfiles(l)
    \/ GetRootFolders(l)
    \/ GetTags(l)
    \/ Post(l)
    \/ Sleep(l)

Next == \E l \in SyncLoops : Step(l)

\* add_movie / add_series of one adapter called on each entry of the
\* watchlist in turn, whatever the entry's kind.
CallAdapter(l) ==
    /\ task[l].pc = "tick"
    /\ budget[l] > 0
    /\ budget' = [budget EXCEPT ![l] = @ - 1]
    /\ log' = [log EXCEPT ![l] = Append(Recent(@, Cycle(l)), <<>>)]
    /\ posts' = SelectSeq(posts, LAMBDA p : p.loop # l \/ p.cycle >= Cycle(l))
    /\ \E m \in Managers :
          LET items == parse_xml_watchlist(RenderDoc(doc))
          IN  /\ config[m] # None
              /\ items # <<>>
              /\ task' = [task EXCEPT ![l] =
                            [IdleTask EXCEPT !.pc = "route", !.items = items,
                                             !.idx = 1, !.client = Some(m)]]
    /\ UNCHANGED <<doc, parsed, config, srvVars, result, inflight>>

NextCall == \E l \in SyncLoops : CallAdapter(l) \/ Step(l)

(***************************************************************************)
(* Initial states.  The configuration is what Configuration::from_file     *)
(* loaded; the managers' data and the source's document are inputs.        *)
(***************************************************************************)
PlexConfig(skip_friend_sync) == [ skip_friend_sync |-> skip_friend_sync ]

RadarrConfig(quality_profile, root_folder, tag_names) ==
    ManagerConfig(quality_profile, root_folder, tag_names)

SonarrConfig(quality_profile, root_folder, tag_names, season_monitoring) ==
    [ quality_profile   |-> quality_profile,
      root_folder       |-> root_folder,
      tags              |-> tag_names,
      season_monitoring |-> season_monitoring ]

Configuration(plex, radarr, sonarr) ==
    [ plex |-> plex, radarr |-> radarr, sonarr |-> sonarr, delete |-> None ]

\* The terms run_sync will look up at manager m for document d.
Terms(d, m) ==
    LET entries == parse_xml_watchlist(RenderDoc(d))
    IN  { SearchTerm(entries[i].title, entries[i].year) :
            i \in { j \in 1 .. Len(entries) : ManagerOf(entries[j].item_type) = m } }

PerManager(r, s) == [ m \in Managers |-> IF m = "radarr" THEN r ELSE s ]

InitTasks(loops, ticks) ==
    /\ parsed = None
    /\ task = [ l \in SyncLoops |-> IdleTask ]
    /\ log = [ l \in SyncLoops |-> <<>> ]
    /\ result = [ l \in SyncLoops |-> <<>> ]
    /\ budget \in { [ l \in SyncLoops |-> IF l = on THEN ticks ELSE 0 ] : on \in loops }
    /\ inflight = {}
    /\ posts = <<>>

HD == [id |-> 4, name |-> "HD-1080p"]
SD == [id |-> 7, name |-> "SD"]

SingleResponses(m) == { <<>> } \cup { <<r>> : r \in LookupResults(m) }

Indexes(d, responsesR, responsesS) ==
    { PerManager(r, s) : r \in [ Terms(d, "radarr") -> responsesR ],
                         s \in [ Terms(d, "sonarr") -> responsesS ] }

\* One reconciliation pass of either sync loop, over every watchlist of
\* well-formed records, with each manager configured or not.  The two titles
\* are interchangeable, so the first record's is fixed.
Init ==
    /\ doc \in { d \in SeqsUpTo(EntryShapes, MaxRecords) :
                    d # <<>> => d[1].title = Some("A") }
    /\ config \in { Configuration(Some(PlexConfig(FALSE)), r, s) :
                      r \in { None, Some(RadarrConfig(None, None, None)) },
                      s \in { None, Some(SonarrConfig(None, None, Some(<<"watchlist">>), None)) } }
    /\ srvLibrary = PerManager({}, {})
    /\ srvProfiles = PerManager(<<HD>>, <<HD>>)
    /\ srvRoots = PerManager(<<>>, <<>>)
    /\ srvTags = PerManager(<<>>, <<[id |-> 3, label |-> "watchlist"]>>)
    /\ srvIndex \in Indexes(doc, SingleResponses("radarr"), SingleResponses("sonarr"))
    /\ healthy = FALSE
    /\ InitTasks(SyncLoops, 1)

Spec == Init /\ [][Next]_vars

\* The incremental loop ticking MaxCycles times over the same watchlist, both
\* managers configured.
InitTwice ==
    /\ doc \in SeqsUpTo({ r \in EntryShapes : r.title = Some("A") }, MaxRepeated)
    /\ config = Configuration(Some(PlexConfig(FALSE)),
                              Some(RadarrConfig(None, None, None)),
                              Some(SonarrConfig(None, None, Some(<<"watchlist">>), None)))
    /\ srvLibrary = PerManager({}, {})
    /\ srvProfiles = PerManager(<<HD>>, <<HD>>)
    /\ srvRoots = PerManager(<<>>, <<>>)
    /\ srvTags = PerManager(<<>>, <<[id |-> 3, label |-> "watchlist"]>>)
    /\ srvIndex \in Indexes(doc, SingleResponses("radarr"), SingleResponses("sonarr"))
    /\ healthy = FALSE
    /\ InitTasks({"rss"}, MaxCycles)

SpecTwice == InitTwice /\ [][Next]_vars

\* An adapter called on the entries of a watchlist of both kinds, or one pass
\* of run_sync over it; both managers configured.
InitCall ==
    /\ doc \in { d \in SeqsUpTo(EntryShapes, MaxRecords) :
                    d # <<>> => d[1].title = Some("A") }
    /\ config = Configuration(Some(PlexConfig(FALSE)),
                              Some(RadarrConfig(None, None, None)),
                              Some(SonarrConfig(None, None, Some(<<"watchlist">>), None)))
    /\ srvLibrary = PerManager({}, {})
    /\ srvProfiles = PerManager(<<HD>>, <<HD>>)
    /\ srvRoots = PerManager(<<>>, <<>>)
    /\ srvTags = PerManager(<<>>, <<[id |-> 3, label |-> "watchlist"]>>)
    /\ srvIndex \in Indexes(doc, { <<>>, <<LookupResult(None, Some(1))>> },
                                  { <<>>, <<LookupResult(Some(1), None)>> })
    /\ healthy = FALSE
    /\ InitTasks({"rss"}, 1)

SpecCall == InitCall /\ [][NextCall]_vars

\* Well-formed records titled A, with no year, a year, or a year that is no number.
DatedShapes ==
    { r \in [ tag       : {"Video", "Directory"},
              type      : {Some("movie"), Some("show")},
              titleName : {"title"},
              title     : {Some("A")},
              key       : {TRUE},
              year      : {None, Some("2021"), Some("MMXXI")} ] :
        (r.tag = "Video") <=> (r.type = Some("movie")) }

LookupTerms == { "A", "A 2021", "A MMXXI" }

\* Ranked responses of up to two results with different ids.
TwoRanked(m) ==
    LET r1 == IF m = "radarr" THEN LookupResult(None, Some(1)) ELSE LookupResult(Some(1), None)
        r2 == IF m = "radarr" THEN LookupResult(None, Some(2)) ELSE LookupResult(Some(2), None)
    IN  { <<>>, <<r1>>, <<r1, r2>>, <<r2, r1>> }

\* One add attempt for an entry with or without a year, the manager's index
\* answering each term in its own way.
InitLookup ==
    /\ doc \in { <<r>> : r \in DatedShapes }
    /\ config = Configuration(Some(PlexConfig(FALSE)),
                              Some(RadarrConfig(None, None, None)),
                              Some(SonarrConfig(None, None, Some(<<"watchlist">>), None)))
    /\ srvLibrary \in { PerManager(lib, lib) :
                           lib \in { {}, {LibraryRecord(Some(2), Some(2))} } }
    /\ srvProfiles = PerManager(<<HD>>, <<HD>>)
    /\ srvRoots = PerManager(<<>>, <<>>)
    /\ srvTags = PerManager(<<>>, <<[id |-> 3, label |-> "watchlist"]>>)
    /\ \E kind \in Managers :
          /\ Terms(doc, kind) # {}
          /\ srvIndex \in { [ m \in Managers |-> IF m = kind THEN ix
                                                 ELSE [ t \in LookupTerms |-> <<>> ] ] :
                               ix \in [ LookupTerms -> TwoRanked(kind) ] }
    /\ healthy = FALSE
    /\ InitTasks({"rss"}, 1)

SpecLookup == InitLookup /\ [][Next]_vars

(***************************************************************************)
(* src/main.rs: the four loops main spawns, each a task of its own.        *)
(***************************************************************************)
Loops == SyncLoops \cup {"ping", "delete"}

\* DeleteConfig: the fields plex_delete_sync reads, and delete_files.
DeleteConfig(movie, ended_show, continuing_show, delete_files) ==
    [ movie |-> movie, ended_show |-> ended_show,
      continuing_show |-> continuing_show, delete_files |-> delete_files ]

\* Option<bool>::unwrap_or(false)
UnwrapOrFalse(o) == IF IsSome(o) THEN Unwrap(o) ELSE FALSE

\* interval.tick() of ping_token_sync, up to the call of get_watchlist.
PingTick ==
    /\ task["ping"].pc = "tick"
    /\ budget["ping"] > 0
    /\ budget' = [budget EXCEPT !["ping"] = @ - 1]
    /\ log' = [log EXCEPT !["ping"] = Append(@, <<>>)]
    /\ IF config.plex = None
       THEN Return("ping", "Ok")
       ELSE /\ Goto("ping", "get_watchlist")
            /\ UNCHANGED result
    /\ UNCHANGED <<doc, parsed, config, srvVars, inflight, posts>>

\* The answer to the probe: debug! on Ok, warn! on Err, and the next tick.
PingWatchlist ==
    /\ task["ping"].pc = "get_watchlist"
    /\ Answered("ping")
    /\ \E resp \in Answers(GetResponses) :
          Return("ping", IF resp = "ok" THEN "Ok" ELSE "Err")
    /\ UNCHANGED <<doc, parsed, config, srvVars, log, budget, posts>>

PingStep == PingTick \/ Send("ping") \/ PingWatchlist

\* run_delete_sync: logs and returns Ok(()).
run_delete_sync == "Ok"

\* The gate of plex_delete_sync.
DeleteEnabled ==
    /\ config.delete # None
    /\ \/ UnwrapOrFalse(Unwrap(config.delete).movie)
       \/ UnwrapOrFalse(Unwrap(config.delete).ended_show)
       \/ UnwrapOrFalse(Unwrap(config.delete).continuing_show)

\* A removal pass that drops the library's movies.
DeleteTickPruning ==
    /\ task["delete"].pc = "tick"
    /\ budget["delete"] > 0
    /\ budget' = [budget EXCEPT !["delete"] = @ - 1]
    /\ log' = [log EXCEPT !["delete"] = Append(@, <<>>)]
    /\ task' = [task EXCEPT !["delete"] = IdleTask]
    /\ result' = [result EXCEPT !["delete"] =
                     Append(@, IF DeleteEnabled THEN run_delete_sync ELSE "Ok")]
    /\ srvLibrary' = IF DeleteEnabled /\ UnwrapOrFalse(Unwrap(config.delete).movie)
                     THEN [srvLibrary EXCEPT !["radarr"] = {}]
                     ELSE srvLibrary
    /\ UNCHANGED <<doc, parsed, config, srvProfiles, srvRoots, srvTags, srvIndex, healthy,
                   inflight, posts>>

\* interval.tick() of plex_delete_sync and the body of its loop.
DeleteTick ==
    /\ task["delete"].pc = "tick"
    /\ budget["delete"] > 0
    /\ budget' = [budget EXCEPT !["delete"] = @ - 1]
    /\ log' = [log EXCEPT !["delete"] = Append(@, <<>>)]
    /\ Return("delete", IF DeleteEnabled THEN run_delete_sync ELSE "Ok")
    /\ UNCHANGED <<doc, parsed, config, srvVars, inflight, posts>>

\* From here on the watchlist source and the managers answer every call.
Recover ==
    /\ ~healthy
    /\ healthy' = TRUE
    /\ UNCHANGED <<doc, parsed, config, srvLibrary, srvProfiles, srvRoots, srvTags, srvIndex,
                   task, log, result, budget, inflight, posts>>

\* The steps of a sync loop other than the return of its watchlist read.
SyncStep(l) ==
    \/ Tick(l)
    \/ Send(l)
    \/ Route(l)
    \/ Lookup(l)
    \/ GetLibrary(l)
    \/ GetQualityProfiles(l)
    \/ GetRootFolders(l)
    \/ GetTags(l)
    \/ Post(l)
    \/ Sleep(l)

LoopStep(l) ==
    IF l \in SyncLoops THEN SyncStep(l)
    ELSE IF l = "ping" THEN PingStep
    ELSE DeleteTick

\* The watchlist read of loop l is in flight.
Reading(l) == task[l].pc = "get_watchlist" /\ task[l].waiting

NextLoops ==
    \/ \E l \in SyncLoops : Step(l)
    \/ PingStep
    \/ DeleteTick
    \/ Recover

\* What the operator may have set for the removal sync.
DeleteSettings ==
    { None,
      Some(DeleteConfig(Some(FALSE), None, None, Some(TRUE))),
      Some(DeleteConfig(Some(TRUE), None, None, Some(TRUE))),
      Some(DeleteConfig(None, Some(TRUE), Some(FALSE), None)),
      Some(DeleteConfig(None, Some(FALSE), Some(TRUE), Some(FALSE))) }


\* The ticks to come of the four loops: MaxCycles of one loop alone, or
\* SideTicks of a sync loop and as many of the probe or of the removal sync.
Budgets ==
    { [ l \in Loops |-> IF l = a THEN MaxCycles ELSE 0 ] : a \in Loops }
    \cup { [ l \in Loops |-> IF l \in {"rss", "ping"} THEN SideTicks ELSE 0 ],
           [ l \in Loops |-> IF l \in {"full", "delete"} THEN SideTicks ELSE 0 ] }

\* The four loops over a watchlist of one entry, both managers configured
\* and holding a record each.
InitLoops ==
    /\ doc \in { <<r>> : r \in { e \in EntryShapes : e.title = Some("A") } }
    /\ config \in { [Configuration(p, Some(RadarrConfig(None, None, None)),
                                       Some(SonarrConfig(None, None, Some(<<"watchlist">>), None)))
                        EXCEPT !.delete = d] :
                      p \in { None, Some(PlexConfig(FALSE)) }, d \in DeleteSettings }
    /\ srvLibrary = PerManager({ LibraryRecord(None, Some(2)) },
                               { LibraryRecord(Some(2), Some(2)) })
    /\ srvProfiles = PerManager(<<HD>>, <<HD>>)
    /\ srvRoots = PerManager(<<>>, <<>>)
    /\ srvTags = PerManager(<<>>, <<[id |-> 3, label |-> "watchlist"]>>)
    /\ srvIndex \in Indexes(doc, { <<>>, <<LookupResult(None, Some(1))>>,
                                         <<LookupResult(None, None)>> },
                                  { <<>>, <<LookupResult(Some(1), None)>> })
    /\ healthy = FALSE
    /\ parsed = None
    /\ task = [ l \in Loops |-> IdleTask ]
    /\ log = [ l \in Loops |-> <<>> ]
    /\ result = [ l \in Loops |-> <<>> ]
    /\ budget \in Budgets
    /\ config.delete # None => budget["delete"] = MaxCycles
    /\ inflight = {}
    /\ posts = <<>>

\* Each task, once it can take a step, takes one: the runtime polls a task
\* that is ready, a tick comes at its time, and a call returns a response or,
\* at the client's timeout, a failure; so no watchlist read stays in flight.
SpecLoops ==
    /\ InitLoops /\ [][NextLoops]_vars
    /\ \A l \in Loops : WF_vars(LoopStep(l))
    /\ \A l \in SyncLoops : []<>~Reading(l)

\* One add attempt, over the folders and tags a manager may report and the
\* operator may configure.
InitPlacement ==
    /\ doc \in { <<r>> : r \in { e \in EntryShapes : e.title = Some("A") } }
    /\ config \in { Configuration(Some(PlexConfig(FALSE)),
                                  Some(RadarrConfig(None, f, t)),
                                  Some(SonarrConfig(None, f, t, None))) :
                      f \in { None, Some("/media"), Some("/elsewhere") },
                      t \in { None, Some(<<"watchlist", "kids">>),
                              Some(<<"kids", "absent", "watchlist">>) } }
    /\ \E kind \in Managers :
          /\ Terms(doc, kind) # {}
          /\ srvRoots \in { [ m \in Managers |-> IF m = kind THEN rs ELSE <<>> ] :
                              rs \in SeqsUpTo(RootUniverse, 2) }
          /\ srvTags \in { [ m \in Managers |-> IF m = kind THEN ts ELSE <<>> ] :
                             ts \in SeqsUpTo(TagUniverse, 2) }
    /\ srvLibrary = PerManager({}, {})
    /\ srvProfiles = PerManager(<<HD>>, <<HD>>)
    /\ srvIndex \in Indexes(doc, { <<LookupResult(None, Some(1))>> },
                                  { <<LookupResult(Some(1), None)>> })
    /\ healthy = FALSE
    /\ InitTasks({"rss"}, 1)

SpecPlacement == InitPlacement /\ [][Next]_vars

\* The two sync loops side by side over a watchlist of one entry, whose
\* lookup result has its ids and is not in the library.
InitRace ==
    /\ doc \in { <<r>> : r \in { e \in EntryShapes : e.title = Some("A") } }
    /\ config = Configuration(Some(PlexConfig(FALSE)),
                              Some(RadarrConfig(None, None, Some(<<"watchlist">>))),
                              Some(SonarrConfig(None, None, Some(<<"watchlist">>), None)))
    /\ srvLibrary = PerManager({}, {})
    /\ srvProfiles = PerManager(<<HD>>, <<HD>>)
    /\ srvRoots = PerManager(<<>>, <<>>)
    /\ srvTags = PerManager(<<>>, <<>>)
    /\ srvIndex \in Indexes(doc, { <<LookupResult(None, Some(1))>> },
                                  { <<LookupResult(Some(1), Some(1))>> })
    /\ healthy \in BOOLEAN
    /\ parsed = None
    /\ task = [ l \in SyncLoops |-> IdleTask ]
    /\ log = [ l \in SyncLoops |-> <<>> ]
    /\ result = [ l \in SyncLoops |-> <<>> ]
    /\ budget = [ l \in SyncLoops |-> SideTicks ]
    /\ inflight = {}
    /\ posts = <<>>

SpecRace == InitRace /\ [][Next]_vars

\* One pass over a watchlist of two entries of one kind, under one title or
\* two, whose lookups give a result with an id; the library is empty.
InitSame ==
    /\ doc \in { <<r1, r2>> : r1 \in { e \in EntryShapes : e.title = Some("A") },
                              r2 \in EntryShapes } \cap
               { d \in Seq(EntryShapes) : Len(d) = 2 /\ d[1].tag = d[2].tag }
    /\ config = Configuration(Some(PlexConfig(FALSE)),
                              Some(RadarrConfig(None, None, Some(<<"watchlist">>))),
                              Some(SonarrConfig(None, None, None, None)))
    /\ srvLibrary = PerManager({}, {})
    /\ srvProfiles = PerManager(<<HD>>, <<HD>>)
    /\ srvRoots = PerManager(<<>>, <<>>)
    /\ srvTags = PerManager(<<>>, <<>>)
    /\ srvIndex \in Indexes(doc, { <<LookupResult(None, Some(1))>> },
                                  { <<LookupResult(Some(1), None)>>,
                                    <<LookupResult(None, Some(1))>> })
    /\ healthy = FALSE
    /\ InitTasks({"rss"}, 1)

SpecSame == InitSame /\ [][Next]_vars

\* One add attempt, over the data a manager may hold and report.
InitAdd ==
    /\ doc \in { <<r>> : r \in { e \in EntryShapes : e.title = Some("A") } }
    /\ config \in { Configuration(Some(PlexConfig(FALSE)),
                                  Some(RadarrConfig(q, None, t)),
                                  Some(SonarrConfig(q, None, t, None))) :
                      q \in { None, Some("HD-1080p"), Some("hd-1080p") },
                      t \in { None, Some(<<"watchlist">>) } }
    /\ \E kind \in Managers :
          /\ Terms(doc, kind) # {}
          /\ srvLibrary \in { [ m \in Managers |-> IF m = kind THEN lib ELSE {} ] :
                                lib \in SUBSET LibraryUniverse(kind) }
          /\ srvProfiles \in { [ m \in Managers |-> IF m = kind THEN ps ELSE <<>> ] :
                                 ps \in SeqsUpTo(ProfileUniverse, 2) }
    /\ srvRoots = PerManager(<<>>, <<>>)
    /\ srvTags = PerManager(<<>>, <<>>)
    /\ srvIndex \in Indexes(doc, RankedResponses("radarr"), RankedResponses("sonarr"))
    /\ healthy = FALSE
    /\ InitTasks({"rss"}, 1)

SpecAdd == InitAdd /\ [][Next]_vars

\* The reader run on its own, over every document of the record shapes.
InitReader ==
    /\ doc \in SeqsUpTo(RecordShapes, MaxRecords)
    /\ parsed = None
    /\ config = Configuration(None, None, None)
    /\ srvLibrary = PerManager({}, {})
    /\ srvProfiles = PerManager(<<>>, <<>>)
    /\ srvRoots = PerManager(<<>>, <<>>)
    /\ srvTags = PerManager(<<>>, <<>>)
    /\ srvIndex = PerManager(<<>>, <<>>)
    /\ healthy = FALSE
    /\ task = [ l \in SyncLoops |-> IdleTask ]
    /\ log = [ l \in SyncLoops |-> <<>> ]
    /\ result = [ l \in SyncLoops |-> <<>> ]
    /\ budget = [ l \in SyncLoops |-> 0 ]
    /\ inflight = {}
    /\ posts = <<>>

ParseWatchlist ==
    /\ parsed = None
    /\ parsed' = Some(parse_xml_watchlist(RenderDoc(doc)))
    /\ UNCHANGED <<doc, config, srvVars, task, log, result, budget, inflight, posts>>

SpecReader == InitReader /\ [][ParseWatchlist]_vars

(***************************************************************************)
(* The watchlist reader (SpecReader).                                      *)
(***************************************************************************)
Output == Unwrap(parsed)

\* The place in doc of the record an entry was read from: its ratingKey.
Pos(entry) == CHOOSE k \in 1 .. Len(doc) : ToString(k) = entry.id

Emitted(k) == \E i \in 1 .. Len(Output) : Output[i].id = ToString(k)

\* C8, as stated: the reader's output lists the entries in the order of
\* their records in the source document.
C8_SourceOrder ==
    IsSome(parsed) =>
        \A i, j \in 1 .. Len(Output) : i < j => Pos(Output[i]) < Pos(Output[j])

\* C8, amended: the entries of one kind keep the order of their records, and
\* every movie entry comes before every show entry.
C8_OrderWithinKind ==
    IsSome(parsed) =>
        \A i, j \in 1 .. Len(Output) :
            i < j =>
                /\ Output[i].item_type = Output[j].item_type => Pos(Output[i]) < Pos(Output[j])
                /\ ~(Output[i].item_type = "Show" /\ Output[j].item_type = "Movie")

\* A document whose show record precedes its movie record, both read.
C8_Interleaved ==
    /\ IsSome(parsed)
    /\ \E i, j \in 1 .. Len(Output) :
          /\ Output[i].item_type = "Movie"
          /\ Output[j].item_type = "Show"
          /\ Pos(Output[j]) < Pos(Output[i])

\* What a record lacks, read as a document: an attribute named ratingKey,
\* one named title, a type of movie or show.
LacksRequired(r) ==
    \/ ~r.key
    \/ r.title = None
    \/ r.titleName # "title"
    \/ r.type = None

WellFormed(r) ==
    /\ ~LacksRequired(r)
    /\ (r.tag = "Video") <=> (r.type = Some("movie"))

\* C9: a record that lacks its identifier, its title or its kind marker
\* yields no entry; every entry has an identifier, a title and a kind; the
\* well-formed records are still read.
C9_IncompleteDropped ==
    IsSome(parsed) =>
        /\ \A k \in 1 .. Len(doc) : LacksRequired(doc[k]) => ~Emitted(k)
        /\ \A i \in 1 .. Len(Output) :
              /\ Output[i].id \in { ToString(k) : k \in 1 .. Len(doc) }
              /\ Output[i].item_type \in {"Movie", "Show"}
        /\ \A k \in 1 .. Len(doc) : WellFormed(doc[k]) => Emitted(k)

(***************************************************************************)
(* One add attempt (SpecAdd).                                              *)
(***************************************************************************)
AttemptPcs == CallPcs \ {"get_watchlist"}

\* Loop l is inside add_movie / add_series for its current entry.
Attempting(l) == task[l].pc \in AttemptPcs

\* The add requests sent for entry i of cycle c of loop l.
PostsOf(ps, l, c, i) ==
    { k \in 1 .. Len(ps) : ps[k].loop = l /\ ps[k].cycle = c /\ ps[k].idx = i }

\* The outcome recorded last in the current cycle of loop l.
LastOutcome(lg, l) == lg[l][Len(lg[l])][Len(lg[l][Len(lg[l])])]

\* The library holds a record with the same id as the lookup result, in the
\* same id namespace.
TmdbMatch(lr, library) ==
    IsSome(lr.tmdb_id) /\ \E rec \in library : rec.tmdb_id = lr.tmdb_id

TvdbMatch(lr, library) ==
    IsSome(lr.tvdb_id) /\ \E rec \in library : rec.tvdb_id = lr.tvdb_id

IdMatch(m, lr, library) ==
    IF m = "radarr" THEN TmdbMatch(lr, library)
    ELSE TvdbMatch(lr, library) \/ TmdbMatch(lr, library)

\* The attempt of loop l holds a lookup result that the library matches.
MatchedAttempt(l) ==
    /\ Attempting(l)
    /\ IsSome(task[l].lookup_result)
    /\ IdMatch(CurrentManager(l), Unwrap(task[l].lookup_result), srvLibrary[CurrentManager(l)])

NoPostFor(l) == PostsOf(posts', l, Cycle(l), task[l].idx) = {}

EndsAttempt(l) == Attempting(l) /\ task'[l].pc = "sleep"

\* C1, as stated: when the library holds a record with the id of the lookup
\* result, the attempt ends AlreadyExists and sends no add request.
C1_MatchIsAlreadyExists ==
    [][ \A l \in SyncLoops :
          MatchedAttempt(l) =>
              /\ NoPostFor(l)
              /\ EndsAttempt(l) => LastOutcome(log', l).result = "AlreadyExists" ]_vars

\* C1, amended: when the library holds a record with the id of the lookup
\* result, the attempt sends no add request, and it ends AlreadyExists unless
\* the call that lists the library fails, in which case it ends Failed.
C1_MatchNeverPosts ==
    [][ \A l \in SyncLoops :
          MatchedAttempt(l) =>
              /\ NoPostFor(l)
              /\ EndsAttempt(l) =>
                    \/ LastOutcome(log', l).result = "AlreadyExists"
                    \/ /\ LastOutcome(log', l).result = "Failed"
                       /\ LastOutcome(log', l).at = "get_library"
                       /\ LastOutcome(log', l).error = "Unavailable" ]_vars

\* An attempt ended AlreadyExists on a library record with the result's id.
C1_MatchFound ==
    \E l \in SyncLoops :
        /\ task[l].pc = "sleep"
        /\ LastOutcome(log, l).result = "AlreadyExists"
        /\ IsSome(LastOutcome(log, l).lookup)
        /\ IdMatch(CurrentManager(l), Unwrap(LastOutcome(log, l).lookup),
                   srvLibrary[CurrentManager(l)])
        /\ PostsOf(posts, l, Cycle(l), task[l].idx) = {}

\* The library matches the result by one of the two show ids and not by the other.
TvdbOnly(lr, library) == TvdbMatch(lr, library) /\ ~TmdbMatch(lr, library)

TmdbOnly(lr, library) == TmdbMatch(lr, library) /\ ~TvdbMatch(lr, library)

\* C2: for a show, a library record with the result's tvdb id alone, or one
\* with its tmdb id alone, keeps the add request from being sent; the
\* attempt does not end Added.
C2_EitherIdSuppresses ==
    [][ \A l \in SyncLoops :
          ( /\ Attempting(l)
            /\ CurrentManager(l) = "sonarr"
            /\ IsSome(task[l].lookup_result)
            /\ \/ TvdbOnly(Unwrap(task[l].lookup_result), srvLibrary["sonarr"])
               \/ TmdbOnly(Unwrap(task[l].lookup_result), srvLibrary["sonarr"]) )
          => /\ NoPostFor(l)
             /\ EndsAttempt(l) => LastOutcome(log', l).result \in {"AlreadyExists", "Failed"}
             /\ EndsAttempt(l) /\ task[l].pc = "get_library" /\ LastOutcome(log', l).error = ""
                   => LastOutcome(log', l).result = "AlreadyExists" ]_vars

\* A show attempt ended AlreadyExists on a match by tmdb id alone.
C2_TmdbAlone ==
    \E l \in SyncLoops :
        /\ task[l].pc = "sleep"
        /\ CurrentManager(l) = "sonarr"
        /\ LastOutcome(log, l).result = "AlreadyExists"
        /\ IsSome(LastOutcome(log, l).lookup)
        /\ TmdbOnly(Unwrap(LastOutcome(log, l).lookup), srvLibrary["sonarr"])
        /\ PostsOf(posts, l, Cycle(l), task[l].idx) = {}

\* C5: an attempt whose lookup result has no id in the library and none of
\* whose calls fails sends exactly one add request, with monitored and search
\* on, and ends Added.
C5_AddsOnce ==
    [][ \A l \in SyncLoops :
          ( /\ EndsAttempt(l)
            /\ IsSome(task[l].lookup_result)
            /\ ~IdMatch(CurrentManager(l), Unwrap(task[l].lookup_result),
                        srvLibrary[CurrentManager(l)])
            /\ LastOutcome(log', l).result # "Failed" )
          => /\ LastOutcome(log', l).result = "Added"
             /\ Cardinality(PostsOf(posts', l, Cycle(l), task[l].idx)) = 1
             /\ \A k \in PostsOf(posts', l, Cycle(l), task[l].idx) :
                   /\ posts'[k].body.monitored
                   /\ posts'[k].body.search
                   /\ posts'[k].manager = CurrentManager(l) ]_vars

\* An attempt ended Added after one add request with both flags on.
C5_Added ==
    \E l \in SyncLoops :
        /\ task[l].pc = "sleep"
        /\ LastOutcome(log, l).result = "Added"
        /\ IsSome(LastOutcome(log, l).lookup)
        /\ Cardinality(PostsOf(posts, l, Cycle(l), task[l].idx)) = 1
        /\ \A k \in PostsOf(posts, l, Cycle(l), task[l].idx) :
              posts[k].body.monitored /\ posts[k].body.search

\* The tier ids the manager offers under a name.
IdsNamed(name, profiles) ==
    { profiles[i].id : i \in { j \in 1 .. Len(profiles) : profiles[j].name = name } }

\* C6: the tier of an add request is that of the configured name when the
\* manager offers it (exact match), and the first tier offered when no name is
\* configured or the name is not offered; only the last case is warned of.
C6_QualityTier ==
    \A k \in 1 .. Len(posts) :
        LET p == posts[k]
            configured == Unwrap(config[p.manager]).quality_profile
            profiles == srvProfiles[p.manager]
            named == IF IsSome(configured) THEN IdsNamed(Unwrap(configured), profiles) ELSE {}
            finished == Len(log[p.loop][p.cycle]) >= p.idx
        IN  profiles # <<>> =>
              /\ named # {} => p.body.quality_profile_id \in named
              /\ named = {} => p.body.quality_profile_id = profiles[1].id
              /\ finished => (log[p.loop][p.cycle][p.idx].warned
                                <=> (IsSome(configured) /\ named = {}))

\* An add request sent with the first of two tiers, the configured name
\* differing from an offered one by case only, and warned of.
C6_FallbackWarned ==
    \E k \in 1 .. Len(posts) :
        LET p == posts[k]
            profiles == srvProfiles[p.manager]
        IN  /\ Unwrap(config[p.manager]).quality_profile = Some("hd-1080p")
            /\ Len(profiles) = 2
            /\ profiles[2].name = "HD-1080p"
            /\ profiles[1].id # profiles[2].id
            /\ p.body.quality_profile_id = profiles[1].id
            /\ Len(log[p.loop][p.cycle]) >= p.idx
            /\ log[p.loop][p.cycle][p.idx].warned

(***************************************************************************)
(* One reconciliation pass (Spec).                                         *)
(***************************************************************************)
\* The entries run_sync iterates over: the watchlist get_watchlist returned.
Watchlist == Unwrap(parsed)

\* The cycles of loop l whose records are kept.
Kept(l) == { c \in 1 .. Len(log[l]) : c >= Cycle(l) - 1 }

\* The cycles of loop l whose run_sync has returned.
Returned(l) == { c \in Kept(l) : c <= Len(result[l]) }

Terminal == {"Added", "AlreadyExists", "Failed"}

\* C3: a pass in which the attempt for some entry failed still gives every
\* entry of the watchlist an outcome, terminal for the entries of a
\* configured kind; no entry's failure makes run_sync return an error.
C3_NoShortCircuit ==
    LET entries == Watchlist
    IN  \A l \in SyncLoops : \A c \in Returned(l) :
            /\ (\E k \in 1 .. Len(log[l][c]) : log[l][c][k].result = "Failed") =>
                  /\ result[l][c] = "Ok"
                  /\ Len(log[l][c]) = Len(entries)
                  /\ \A i \in 1 .. Len(entries) :
                        config[ManagerOf(entries[i].item_type)] # None
                            => log[l][c][i].result \in Terminal
            /\ result[l][c] = "Err" => log[l][c] = <<>>

\* A returned pass whose first entry failed and whose second was added.
C3_FailedThenAdded ==
    \E l \in SyncLoops : \E c \in Returned(l) :
        /\ Len(log[l][c]) >= 2
        /\ log[l][c][1].result = "Failed"
        /\ log[l][c][2].result = "Added"
        /\ result[l][c] = "Ok"

\* C7: the request in flight of a loop is for the entry the loop is at; a
\* loop has one request in flight at most; when a request for entry i is in
\* flight, the entries before i have their outcomes and the throttle sleep
\* has run after each of them.
C7_OneAtATime ==
    /\ \A r \in inflight :
          /\ task[r.loop].waiting
          /\ r.idx = task[r.loop].idx
          /\ r.op = task[r.loop].pc
          /\ r.idx >= 1 =>
                /\ Len(log[r.loop][Cycle(r.loop)]) = r.idx - 1
                /\ task[r.loop].sleeps = r.idx - 1
                /\ IsSome(parsed)
                /\ task[r.loop].items = Watchlist
    /\ \A r1, r2 \in inflight : r1.loop = r2.loop => r1 = r2
    /\ \A l \in SyncLoops :
          task[l].idx >= 1 =>
              /\ Len(log[l][Cycle(l)]) \in { task[l].idx - 1, task[l].idx }
              /\ Len(log[l][Cycle(l)]) = task[l].idx <=> task[l].pc = "sleep"
              /\ task[l].sleeps = task[l].idx - 1

\* A request for the second entry in flight, after the first entry's attempt
\* sent requests of its own.
C7_SecondInFlight ==
    \E r \in inflight :
        /\ r.idx = 2
        /\ log[r.loop][Cycle(r.loop)][1].result \in Terminal
        /\ task[r.loop].sleeps = 1

\* C10: an entry of a kind no manager is configured for is recorded as
\* skipped, without an error; no request for it is in flight at any time and
\* no add request is sent for it; the pass goes on to return Ok with an
\* outcome for every entry.
C10_UnconfiguredSkipped ==
    /\ LET entries == Watchlist
       IN  \A l \in SyncLoops : \A c \in Kept(l) : \A i \in 1 .. Len(log[l][c]) :
              config[ManagerOf(entries[i].item_type)] = None =>
                  /\ log[l][c][i].result = "Skipped"
                  /\ log[l][c][i].error = ""
                  /\ PostsOf(posts, l, c, i) = {}
                  /\ c \in Returned(l) => result[l][c] = "Ok" /\ Len(log[l][c]) = Len(entries)
    /\ \A r \in inflight :
          r.idx >= 1 => config[ManagerOf(task[r.loop].items[r.idx].item_type)] # None

\* A returned pass whose first entry was skipped and whose second was added.
C10_SkippedThenAdded ==
    \E l \in SyncLoops : \E c \in Returned(l) :
        /\ Len(log[l][c]) >= 2
        /\ config[ManagerOf(Watchlist[1].item_type)] = None
        /\ log[l][c][1].result = "Skipped"
        /\ log[l][c][2].result = "Added"

(***************************************************************************)
(* Two passes over the same watchlist (SpecTwice).                         *)
(***************************************************************************)
\* The entries of cycle c - 1 that were added, for a cycle c with records.
AddedBefore(l, c) ==
    { i \in 1 .. Len(log[l][c - 1]) : log[l][c - 1][i].result = "Added" }

\* C4: an entry that was added in one pass has no add request sent for it in
\* the next pass over the same watchlist, and ends there AlreadyExists (or
\* Failed, when the lookup call or the call listing the library fails).
C4_SecondPassNoAdd ==
    \A l \in SyncLoops : \A c \in 2 .. Len(log[l]) : \A i \in AddedBefore(l, c) :
        /\ PostsOf(posts, l, c, i) = {}
        /\ Len(log[l][c]) >= i =>
              \/ log[l][c][i].result = "AlreadyExists"
              \/ /\ log[l][c][i].result = "Failed"
                 /\ log[l][c][i].error = "Unavailable"
                 /\ log[l][c][i].at \in {"lookup", "get_library"}

(***************************************************************************)
(* An adapter called on entries of either kind (SpecCall).                 *)
(***************************************************************************)
\* Loop l is about to call its adapter on an entry of the other kind.
MismatchedCall(l) ==
    /\ task[l].pc = "route"
    /\ IsSome(task[l].client)
    /\ CurrentItem(l).item_type # KindOf(Unwrap(task[l].client))

\* What the call of MismatchedCall does besides answering: no request is
\* sent, and the caller is left to go on with the next entry.
MismatchSendsNothing(l) ==
    /\ task'[l].pc = "sleep"
    /\ task'[l].idx = task[l].idx
    /\ inflight' = inflight
    /\ posts' = posts
    /\ srvLibrary' = srvLibrary
    /\ LastOutcome(log', l).result = "KindMismatch"

TermOf(item) ==
    IF item.year = None THEN item.title
    ELSE item.title \o " " \o ToString(Unwrap(item.year))

\* The manager's ranked response for an entry.
ResponseFor(item) == srvIndex[ManagerOf(item.item_type)][TermOf(item)]

\* C12: the lookup of an entry is made with "{title} {year}" when its year
\* is known and with the title otherwise; an empty response ends the attempt
\* with NotFound; of a non-empty response the first element, and no other,
\* is what the attempt compares with the library and sends in its add request.
C12_FirstOfRanked ==
    \A l \in SyncLoops : \A c \in Kept(l) : \A i \in 1 .. Len(log[l][c]) :
        LET entry == log[l][c][i]
            item == Watchlist[i]
            m == ManagerOf(item.item_type)
            response == ResponseFor(item)
        IN  /\ entry.error = "NotFound" <=> (response = <<>> /\ entry.error # "Unavailable")
            /\ entry.error = "NotFound" => entry.result = "Failed" /\ entry.at = "lookup"
            /\ IsSome(entry.lookup) => response # <<>> /\ entry.lookup = Some(response[1])
            /\ entry.result = "AlreadyExists" => IdMatch(m, response[1], srvLibrary[m])
            /\ \A k \in PostsOf(posts, l, c, i) :
                  /\ posts[k].body.tmdb_id = response[1].tmdb_id
                  /\ m = "sonarr" => posts[k].body.tvdb_id = response[1].tvdb_id
                  /\ posts[k].body.title = response[1].title

\* An entry with a year added with the first of two results for its dated
\* term, the index answering its bare title otherwise and the library
\* holding the second result.
C12_DatedFirstResult ==
    \E l \in SyncLoops :
        /\ Len(log[l]) = 1 /\ Len(log[l][1]) = 1
        /\ log[l][1][1].result = "Added"
        /\ IsSome(Watchlist[1].year)
        /\ Len(ResponseFor(Watchlist[1])) = 2
        /\ srvIndex[ManagerOf(Watchlist[1].item_type)][Watchlist[1].title]
              # ResponseFor(Watchlist[1])
        /\ IdMatch(ManagerOf(Watchlist[1].item_type), ResponseFor(Watchlist[1])[2],
                   { LibraryRecord(Some(2), Some(2)) })
        /\ LibraryRecord(Some(2), Some(2)) \in srvLibrary[ManagerOf(Watchlist[1].item_type)]

(***************************************************************************)
(* The placement of one add attempt (SpecPlacement).                       *)
(***************************************************************************)
Reports(root_folders, path) ==
    \E i \in 1 .. Len(root_folders) : root_folders[i].path = path

FixedRoot(m) == IF m = "radarr" THEN "/mnt/shared/movies" ELSE "/tv"

\* C13, as stated: the configured root is used when the manager reports it;
\* with no root configured, or one the manager does not report, the first
\* reported root is used; when the manager reports no root, the fixed path.
C13_RootLikeTier ==
    \A k \in 1 .. Len(posts) :
        LET p == posts[k]
            configured == Unwrap(config[p.manager]).root_folder
            roots == srvRoots[p.manager]
            matches == IsSome(configured) /\ Reports(roots, Unwrap(configured))
        IN  /\ matches => p.body.root_folder_path = Unwrap(configured)
            /\ ~matches /\ roots # <<>> => p.body.root_folder_path = roots[1].path
            /\ roots = <<>> => p.body.root_folder_path = FixedRoot(p.manager)

\* C13, amended: a configured root is used as it is, whether the manager
\* reports it or not; with no root configured the first reported root is
\* used, and the fixed path when the manager reports none.
C13_ConfiguredRootAsIs ==
    \A k \in 1 .. Len(posts) :
        LET p == posts[k]
            configured == Unwrap(config[p.manager]).root_folder
            roots == srvRoots[p.manager]
        IN  /\ IsSome(configured) => p.body.root_folder_path = Unwrap(configured)
            /\ configured = None /\ roots # <<>> => p.body.root_folder_path = roots[1].path
            /\ configured = None /\ roots = <<>> => p.body.root_folder_path = FixedRoot(p.manager)

\* An add request sent with a configured root that the manager, reporting
\* roots, does not report.
C13_UnreportedRootSent ==
    \E k \in 1 .. Len(posts) :
        LET p == posts[k]
            configured == Unwrap(config[p.manager]).root_folder
        IN  /\ configured = Some("/elsewhere")
            /\ srvRoots[p.manager] # <<>>
            /\ p.body.root_folder_path = "/elsewhere"

\* The configured names that are the label of a reported tag, in their order.
NamesReported(tag_names, manager_tags) ==
    SelectSeq(tag_names, LAMBDA n : \E i \in 1 .. Len(manager_tags) : manager_tags[i].label = n)

\* ids are, name by name, ids of reported tags with the names of NamesReported.
TagsResolved(ids, tag_names, manager_tags) ==
    LET names == NamesReported(tag_names, manager_tags)
    IN  /\ Len(ids) = Len(names)
        /\ \A k \in 1 .. Len(ids) :
              \E i \in 1 .. Len(manager_tags) :
                  manager_tags[i].label = names[k] /\ manager_tags[i].id = ids[k]

\* C14: the tag ids of an add request are those of the configured names
\* that are labels of tags the manager reported, in the order of the names;
\* the other names are dropped and the add is sent all the same; the list is
\* empty with no tags configured, and when the manager's tags were not had.
C14_TagsInConfiguredOrder ==
    \A l \in SyncLoops :
        task[l].pc = "post" /\ task[l].waiting =>
            LET sent == PostsOf(posts, l, Cycle(l), task[l].idx)
                configured == Unwrap(config[CurrentManager(l)]).tags
            IN  /\ Cardinality(sent) = 1
                /\ \A k \in sent :
                      IF configured = None \/ task[l].manager_tags = None
                      THEN posts[k].body.tags = <<>>
                      ELSE TagsResolved(posts[k].body.tags, Unwrap(configured),
                                        Unwrap(task[l].manager_tags))

\* An add request sent with the ids of the second and the first reported
\* tag, the configured names being in that order with an unreported one between.
C14_OrderedAndDropped ==
    \E l \in SyncLoops :
        /\ task[l].pc = "post" /\ task[l].waiting
        /\ Unwrap(config[CurrentManager(l)]).tags = Some(<<"kids", "absent", "watchlist">>)
        /\ task[l].manager_tags = Some(<< [id |-> 3, label |-> "watchlist"],
                                          [id |-> 5, label |-> "kids"] >>)
        /\ \E k \in PostsOf(posts, l, Cycle(l), task[l].idx) : posts[k].body.tags = <<5, 3>>

(***************************************************************************)
(* Rejected add requests (SpecTwice).                                      *)
(***************************************************************************)
\* C15: an entry whose add request the manager rejected has a failure for
\* its outcome, and one add request was sent for it; no entry of a pass has
\* more than one add request sent for it in that pass.
C15_NoRetryInPass ==
    \A l \in SyncLoops : \A c \in Kept(l) :
        /\ \A k1, k2 \in 1 .. Len(posts) :
              /\ posts[k1].loop = l /\ posts[k2].loop = l
              /\ posts[k1].cycle = c /\ posts[k2].cycle = c
              /\ posts[k1].idx = posts[k2].idx
              => k1 = k2
        /\ \A i \in 1 .. Len(log[l][c]) :
              log[l][c][i].error = "Rejected" =>
                  /\ log[l][c][i].result = "Failed"
                  /\ Cardinality(PostsOf(posts, l, c, i)) = 1

\* An entry rejected in one pass, that pass over with that one add request,
\* and sent again in the next pass.
C15_RejectedThenResent ==
    \E l \in SyncLoops :
        /\ Cycle(l) = 2
        /\ log[l][1] # <<>>
        /\ log[l][1][1].error = "Rejected"
        /\ result[l][1] = "Ok"
        /\ Cardinality(PostsOf(posts, l, 1, 1)) = 1
        /\ Cardinality(PostsOf(posts, l, 2, 1)) = 1

(***************************************************************************)
(* The four loops (SpecLoops).                                             *)
(***************************************************************************)
\* Cycle n of loop l is over, and was logged as failed.
CycleFailed(l, n) == Len(result[l]) >= n /\ result[l][n] = "Err"

\* C16: no loop is ever in a terminated state; a cycle that failed on a call
\* was logged by its loop, and the loop, its interval having a tick to come,
\* takes its next tick.
C16_LoopsSurvive ==
    /\ [](\A l \in Loops : task[l].pc # "exited")
    /\ \A l \in Loops : \A n \in 1 .. MaxCycles :
          (CycleFailed(l, n) /\ budget[l] > 0) ~> (Len(log[l]) > n)

\* The probe's first cycle failed and its second has begun.
C16_ProbeGoesOn ==
    /\ CycleFailed("ping", 1)
    /\ Len(log["ping"]) = 2

\* The watchlist as the reader returns it.
Entries == parse_xml_watchlist(RenderDoc(doc))

\* The lookup response for entry e at its manager.
Ranked(e) == srvIndex[ManagerOf(e.item_type)][SearchTerm(e.title, e.year)]

\* The source is read, and every entry's manager is configured and has a
\* lookup result for it.
Retriable ==
    /\ config.plex # None
    /\ Entries # <<>>
    /\ \A i \in 1 .. Len(Entries) :
          /\ config[ManagerOf(Entries[i].item_type)] # None
          /\ Ranked(Entries[i]) # <<>>

\* Entry e is in its manager's library by an id of its lookup result, or an
\* add request for it was accepted in a pass of loop l.
Settled(l, i) ==
    LET e == Entries[i]
        m == ManagerOf(e.item_type)
    IN  /\ Ranked(e) # <<>>
        /\ \/ IdMatch(m, Ranked(e)[1], srvLibrary[m])
           \/ /\ \E rec \in srvLibrary[m] :
                     /\ rec.tmdb_id = Ranked(e)[1].tmdb_id
                     /\ m = "sonarr" => rec.tvdb_id = Ranked(e)[1].tvdb_id
              /\ \E c \in Kept(l) : /\ i <= Len(log[l][c])
                                    /\ log[l][c][i].result = "Added"

\* C17: once every call succeeds, with the entries on the watchlist, their
\* managers configured and their lookups not empty, a sync loop that has a
\* tick to come has every entry in its manager's library or added.
C17_RetriedInLaterCycle ==
    \A l \in SyncLoops :
        (healthy /\ budget[l] > 0 /\ Retriable)
            ~> (\A i \in 1 .. Len(Entries) : Settled(l, i))

\* The entry failed in the first pass and was added in the second.
C17_FailedThenAddedNextPass ==
    \E l \in SyncLoops :
        /\ Cycle(l) = 2
        /\ log[l][1] # <<>> /\ log[l][1][1].result = "Failed"
        /\ log[l][2] # <<>> /\ log[l][2][1].result = "Added"
        /\ PostsOf(posts, l, 1, 1) = {}

\* The cycles of loop l that have begun and not ended.
InProgress(l) == Len(log[l]) - Len(result[l])

\* C18: a loop has one cycle in progress at most, and none exactly when it
\* awaits its tick; a cycle begins only when the loop has none in progress.
C18_CyclesDoNotOverlap ==
    /\ [](\A l \in Loops : /\ InProgress(l) \in {0, 1}
                           /\ InProgress(l) = 0 <=> task[l].pc = "tick")
    /\ [][\A l \in Loops : Len(log'[l]) > Len(log[l]) => InProgress(l) = 0]_vars

\* A cycle of a sync loop in progress, at its add request, while the probe's is.
C18_TwoLoopsInProgress ==
    \E l \in SyncLoops :
        /\ InProgress(l) = 1 /\ task[l].pc = "post"
        /\ InProgress("ping") = 1 /\ task["ping"].waiting

\* C19: the removal sync has no request in flight and has sent no add
\* request, in every state; no step of the system takes a record out of a
\* library, and a tick of the removal sync leaves the managers, the source
\* and the requests as they were.
C19_RemovalSyncChangesNothing ==
    /\ [](/\ \A r \in inflight : r.loop # "delete"
          /\ \A k \in 1 .. Len(posts) : posts[k].loop # "delete"
          /\ task["delete"] = IdleTask)
    /\ [][\A m \in Managers : srvLibrary[m] \subseteq srvLibrary'[m]]_vars
    /\ [][Len(log'["delete"]) > Len(log["delete"])
              => UNCHANGED <<doc, srvVars, inflight, posts>>]_vars

\* The removal sync has run, set to remove movies and their files, beside a
\* library whose movie is not on the watchlist.
C19_RemovalRanWithMoviesSet ==
    /\ Len(result["delete"]) >= 1
    /\ config.delete # None
    /\ Unwrap(config.delete).movie = Some(TRUE)
    /\ Unwrap(config.delete).delete_files = Some(TRUE)
    /\ LibraryRecord(None, Some(2)) \in srvLibrary["radarr"]

\* C20: a pass that has begun comes to its end, and an add attempt that has
\* begun comes to its outcome, every call being answered.
C20_PassTerminates ==
    \A l \in SyncLoops :
        /\ \A n \in 1 .. MaxCycles :
              (Len(log[l]) = n /\ Len(result[l]) < n) ~> (Len(result[l]) >= n)
        /\ (task[l].pc \in AttemptPcs \cup {"route"}) ~> (task[l].pc = "sleep")

\* A pass over, its entry's attempt having failed where the add request was
\* answered.
C20_PassOverAfterFailedAdd ==
    \E l \in SyncLoops :
        /\ Len(result[l]) = 1
        /\ log[l][1] # <<>>
        /\ log[l][1][1].result = "Failed"
        /\ log[l][1][1].at = "post"

(***************************************************************************)
(* Failures before the add request (SpecAdd).                              *)
(***************************************************************************)
\* The calls of an attempt that come before its add request and whose
\* failure add_movie / add_series returns with ?.
ListingPcs == {"lookup", "get_library", "get_quality_profiles", "get_root_folders"}

\* The step of loop l goes on with what the manager answered to the call at pc.
GoesOnAnswered(l) ==
    LET m == CurrentManager(l)
        t == task'[l]
    IN  CASE task[l].pc = "lookup" ->
               /\ srvIndex[m][SearchTerm(CurrentItem(l).title, CurrentItem(l).year)] # <<>>
               /\ t.lookup_result =
                     Some(srvIndex[m][SearchTerm(CurrentItem(l).title, CurrentItem(l).year)][1])
          [] task[l].pc = "get_library" -> t.pc = "get_quality_profiles"
          [] task[l].pc = "get_quality_profiles" -> t.quality_profiles = srvProfiles[m]
          [] task[l].pc = "get_root_folders" ->
               /\ IsSome(t.placement)
               /\ Unwrap(t.placement).root_folder_path =
                     RootFolderPath(m, Unwrap(config[m]).root_folder, srvRoots[m])

ReadAnswered(l) == task[l].pc = "get_watchlist" /\ task[l].waiting /\ ~task'[l].waiting

\* C22: the answer to the watchlist read either starts the pass over the
\* entries read, or is a failure: run_sync then returns Err to its loop, which
\* awaits its next tick with nothing in flight, no entry attempted, no add
\* request sent and no library changed; a cycle that returned Err has no
\* outcome and no add request on record, and the tick after it starts the
\* read anew.
C22_FailedReadEndsCycle ==
    /\ [][ \A l \in SyncLoops :
             ReadAnswered(l) =>
                 \/ /\ Len(result'[l]) = Len(result[l]) + 1
                    /\ result'[l][Len(result'[l])] = "Err"
                    /\ task'[l] = IdleTask
                    /\ log' = log /\ posts' = posts /\ srvLibrary' = srvLibrary
                    /\ \A r \in inflight' : r.loop # l
                 \/ /\ Entries # <<>>
                    /\ result' = result
                    /\ task'[l].pc = "route" /\ task'[l].items = Entries
                 \/ /\ Entries = <<>>
                    /\ result'[l] = Append(result[l], "Ok") ]_vars
    /\ [](\A l \in SyncLoops : \A c \in Returned(l) :
             result[l][c] = "Err" =>
                 /\ log[l][c] = <<>>
                 /\ \A k \in 1 .. Len(posts) : ~(posts[k].loop = l /\ posts[k].cycle = c))
    /\ [][ \A l \in SyncLoops :
             Len(result[l]) >= 1 /\ result[l][Len(result[l])] = "Err"
             /\ Len(log'[l]) > Len(log[l])
             => task'[l].pc = "get_watchlist" /\ log'[l][Len(log'[l])] = <<>> ]_vars

\* The read of the first cycle failed, and the second cycle has read the
\* watchlist and sent its add request.
C22_FreshCycleAfterFailedRead ==
    \E l \in SyncLoops :
        /\ Cycle(l) = 2
        /\ result[l][1] = "Err"
        /\ log[l][1] = <<>>
        /\ PostsOf(posts, l, 1, 1) = {}
        /\ PostsOf(posts, l, 2, 1) # {}

(***************************************************************************)
(* The two sync loops side by side (SpecRace).                             *)
(***************************************************************************)
\* The add requests p and q are for one canonical id at one manager.
SameTitle(p, q) ==
    /\ p.manager = q.manager
    /\ \/ IsSome(p.body.tmdb_id) /\ p.body.tmdb_id = q.body.tmdb_id
       \/ IsSome(p.body.tvdb_id) /\ p.body.tvdb_id = q.body.tvdb_id

\* The k-th add request was accepted: its attempt ended Added.
WasAccepted(k) ==
    LET p == posts[k]
    IN  /\ p.cycle <= Len(log[p.loop])
        /\ p.idx <= Len(log[p.loop][p.cycle])
        /\ log[p.loop][p.cycle][p.idx].result = "Added"

\* C23: of the add requests of the two sync loops that the manager accepted,
\* no two are for the same canonical id at the same manager.
C23_OneAddPerId ==
    \A k1, k2 \in 1 .. Len(posts) :
        WasAccepted(k1) /\ WasAccepted(k2) /\ SameTitle(posts[k1], posts[k2]) => k1 = k2

(***************************************************************************)
(* Two entries of one pass with one canonical id (SpecSame).               *)
(***************************************************************************)
\* The entries i and j of cycle c of loop l that have their outcomes and the
\* same lookup result.
SameResolved(l, c, i, j) ==
    /\ i < j /\ j <= Len(log[l][c])
    /\ IsSome(log[l][c][i].lookup)
    /\ log[l][c][i].lookup = log[l][c][j].lookup

AddAccepted(l, c, i) ==
    \/ log[l][c][i].result = "Added"
    \/ log[l][c][i].error = "Undecodable"

IdlessMovieAttempt(l) ==
    /\ Attempting(l)
    /\ CurrentManager(l) = "radarr"
    /\ IsSome(task[l].lookup_result)
    /\ Unwrap(task[l].lookup_result).tmdb_id = None

\* C25, as stated: an attempt of add_movie whose lookup result has no tmdb
\* id never has the library listed, and ends with an add request sent.
C25_IdlessAlwaysSends ==
    /\ [](\A l \in SyncLoops : IdlessMovieAttempt(l) => task[l].pc # "get_library")
    /\ [][ \A l \in SyncLoops :
             IdlessMovieAttempt(l) /\ EndsAttempt(l)
                 => PostsOf(posts', l, Cycle(l), task[l].idx) # {} ]_vars

\* C25, amended: an attempt of add_movie whose lookup result has no tmdb id
\* never has the library listed and never ends AlreadyExists, whatever the
\* library holds; it ends with its one add request sent, or, with none sent,
\* as a failure of the quality-profile or root-folder listing.
C25_IdlessSkipsLibrary ==
    /\ [](\A l \in SyncLoops : IdlessMovieAttempt(l) => task[l].pc # "get_library")
    /\ [][ \A l \in SyncLoops :
             IdlessMovieAttempt(l) /\ EndsAttempt(l)
                 => \/ /\ Cardinality(PostsOf(posts', l, Cycle(l), task[l].idx)) = 1
                       /\ LastOutcome(log', l).at = "post"
                       /\ LastOutcome(log', l).result \in {"Added", "Failed"}
                    \/ /\ PostsOf(posts', l, Cycle(l), task[l].idx) = {}
                       /\ LastOutcome(log', l).result = "Failed"
                       /\ LastOutcome(log', l).error = "Unavailable"
                       /\ LastOutcome(log', l).at
                             \in {"get_quality_profiles", "get_root_folders"} ]_vars

\* A movie added on a lookup result with no tmdb id, beside a library that
\* holds a record with no tmdb id and one with a tmdb id.
C25_IdlessAddedBesideLibrary ==
    \E l \in SyncLoops :
        /\ task[l].pc = "sleep"
        /\ CurrentManager(l) = "radarr"
        /\ LastOutcome(log, l).result = "Added"
        /\ LastOutcome(log, l).lookup = Some(LookupResult(None, None))
        /\ Cardinality(srvLibrary["radarr"]) >= 3

(***************************************************************************)
(* A failed tag listing (SpecPlacement).                                   *)
(***************************************************************************)
\* C26: the answer to the tag listing never ends the attempt: the add
\* request comes next, with no tag ids when the listing failed; the attempt
\* then ends at the add request, Added or Failed as that request is answered.
C26_TagFailureDoesNotFail ==
    /\ [][ \A l \in SyncLoops :
             task[l].pc = "get_tags" /\ task[l].waiting /\ ~task'[l].waiting
                 => /\ task'[l].pc = "post"
                    /\ log' = log
                    /\ task'[l].manager_tags = None => task'[l].tag_ids = <<>> ]_vars
    /\ [][ \A l \in SyncLoops :
             task[l].pc = "post" /\ task[l].manager_tags = None /\ EndsAttempt(l)
                 => /\ \A k \in PostsOf(posts, l, Cycle(l), task[l].idx) :
                          posts[k].body.tags = <<>>
                    /\ Cardinality(PostsOf(posts, l, Cycle(l), task[l].idx)) = 1
                    /\ LastOutcome(log', l).at = "post"
                    /\ \/ LastOutcome(log', l).result = "Added"
                       \/ /\ LastOutcome(log', l).result = "Failed"
                          /\ LastOutcome(log', l).error \in {"Rejected", "Undecodable"} ]_vars

\* An entry added with no tag ids, both configured names being labels of
\* tags the manager holds: the tag listing had failed.
C26_AddedAfterFailedTagListing ==
    \E l \in SyncLoops :
        /\ task[l].pc = "sleep"
        /\ LastOutcome(log, l).result = "Added"
        /\ Unwrap(config[CurrentManager(l)]).tags = Some(<<"watchlist", "kids">>)
        /\ NamesReported(<<"watchlist", "kids">>, srvTags[CurrentManager(l)])
              = <<"watchlist", "kids">>
        /\ \E k \in PostsOf(posts, l, Cycle(l), task[l].idx) : posts[k].body.tags = <<>>

=============================================================================
